---------------------------- MODULE Spec2Model ----------------------------
(***************************************************************************)
(* Model of the dense matrix multiplication kernels (naive, tiled,         *)
(* lane-chunked "vector"), the matrix container, the verifier, the tile    *)
(* size helper, the linear congruential generator and the benchmark        *)
(* harness (main).                                                         *)
(*                                                                         *)
(* Matrix elements are integers (exactly representable doubles), so that   *)
(* sums are exact.  size_t arithmetic is unsigned arithmetic modulo        *)
(* SizeMod = 2^SizeBits; the width is scaled down from the platform's 64   *)
(* bits, every wrap-around of the code is kept.                            *)
(***************************************************************************)
EXTENDS Integers, Sequences, FiniteSets, TLC

(***************************************************************************)
(* The state.  The model runs one part of the program at a time; the       *)
(* variables of the other parts stay at rest.                              *)
(***************************************************************************)

\* kernel calls on a heap that holds A, B and C:
\*   mem    the three matrices as they are now
\*   pre    the three matrices as they were when the call was made
\*   call   which kernel was called, with which tile_size
\*   status "ready" before the call, then "returned" or "crashed"
VARIABLES mem, pre, call, status

\* a call of matrix_create:
\*   create_req  <<rows, cols>> of the call
\*   create_ret  what the call returned
\*   create_pc   "call" before, "done" after
VARIABLES create_req, create_ret, create_pc

\* a call of matrix_verify:
\*   verify_in   [A, B, tolerance] of the call
\*   verify_ret  the int returned
\*   verify_pc   "call" before, "done" after
VARIABLES verify_in, verify_ret, verify_pc

\* a call of calculate_optimal_tile_size:
\*   tile_in   <<cache_size_bytes, element_size>> of the call
\*   tile_ret  the tile size returned
\*   tile_pc   "call" before, "done" after
VARIABLES tile_in, tile_ret, tile_pc

\* two executions of the same initialization, k = 1, 2, on one configuration:
\*   rand_cfg    [seed, rows, cols, min, max], the same for both executions
\*   rnd[k]      execution k: random_seed, the generator states since the seed
\*               was set (trace), the number of random_double calls made before
\*               the seed was set (draws), the matrices A and B, and the pc
VARIABLES rand_cfg, rnd

\* a run of main:
\*   argv            the arguments after the program name
\*   use_vector      whether the build defines USE_VECTOR
\*   pc              where main is: "start", "alloc", "alloc_vector", "run",
\*                   "cleanup", then "exit" (returned) or "crashed"
\*   opts            matrix_size, tile_size, verify_results
\*   mats            what matrix_create returned for A, B, C_naive, C_tiled, C_vector
\*   destroys        how often each of them was passed to matrix_destroy
\*   exit_code       what main returned
VARIABLES argv, use_vector, pc, opts, mats, destroys, exit_code

\* the block loops of a call of matrix_mult_tiled or matrix_mult_tiled_optimized:
\*   blk_call  [kernel, n, m, p, tile_size] of the call
\*   blk       the block counters ii, jj, kk
\*   blk_pc    "outer", "middle", "inner": at the test of that block loop;
\*             "block": in the body of the innermost one; then "done"
\*             (returned) or "crashed"
VARIABLES blk_call, blk, blk_pc

kvars == <<mem, pre, call, status>>
cvars == <<create_req, create_ret, create_pc>>
vvars == <<verify_in, verify_ret, verify_pc>>
tvars == <<tile_in, tile_ret, tile_pc>>
rvars == <<rand_cfg, rnd>>
hvars == <<argv, use_vector, pc, opts, mats, destroys, exit_code>>
bvars == <<blk_call, blk, blk_pc>>
vars == <<kvars, cvars, vvars, tvars, rvars, hvars, bvars>>

(***************************************************************************)
(* Bounds of the model.                                                    *)
(***************************************************************************)
SizeBits == 24
MaxTile == 3
MaxVal == 1
ExhaustCells == 3

SizeMod == 2 ^ SizeBits

\* unsigned size_t arithmetic
SizeSub(a, b) == ((a - b) + SizeMod) % SizeMod
SizeAdd(a, b) == (a + b) % SizeMod
\* a * b modulo SizeMod, by doubling, so that no intermediate value is large
RECURSIVE SizeMul(_, _)
SizeMul(a, b) ==
    IF a = 0 THEN 0 ELSE (2 * SizeMul(a \div 2, b) + (a % 2) * b) % SizeMod

Min2(a, b) == IF a < b THEN a ELSE b

(***************************************************************************)
(* The Matrix struct (include/matrix.h).  alloc = FALSE is a NULL pointer. *)
(* data is the flat row-major buffer; element (i, j) is at linear offset   *)
(* i*cols + j (0-based), i.e. data[i*cols + j + 1].                        *)
(***************************************************************************)
Matrix(r, c, d) == [alloc |-> TRUE, rows |-> r, cols |-> c, data |-> d]
NullMatrix == [alloc |-> FALSE, rows |-> 0, cols |-> 0, data |-> << >>]

Idx(M, i, j) == i * M.cols + j
\* the access stays inside the buffer the Matrix owns
InBuf(M, i, j) == Idx(M, i, j) < Len(M.data)
MATRIX_GET(M, i, j) == M.data[Idx(M, i, j) + 1]
MATRIX_SET(M, i, j, v) == [M EXCEPT !.data[Idx(M, i, j) + 1] = v]

matrix_init_zero(M) ==
    IF ~M.alloc THEN M
    ELSE [M EXCEPT !.data = [x \in 1..Len(M.data) |-> 0]]

\* the guard every kernel starts with: non-NULL pointers, compatible extents
PtrsOk(A, B, C) == A.alloc /\ B.alloc /\ C.alloc
\* (a guard that forgets the extents of C)
DimsOkBroken(A, B, C) == A.cols = B.rows
DimsOk(A, B, C) == A.cols = B.rows /\ A.rows = C.rows /\ B.cols = C.cols

\* a kernel's progress: the output matrix and whether an access left a buffer
KState(C, ub) == [C |-> C, ub |-> ub]

(***************************************************************************)
(* matrix_mult_naive: i-j-k loops, scalar accumulation, one store.         *)
(***************************************************************************)
RECURSIVE NaiveK(_, _, _, _, _, _)
NaiveK(A, B, i, j, k, sum) ==
    IF k < A.cols
    THEN IF InBuf(A, i, k) /\ InBuf(B, k, j)
         THEN NaiveK(A, B, i, j, k + 1,
                     sum + MATRIX_GET(A, i, k) * MATRIX_GET(B, k, j))
         ELSE [sum |-> sum, ub |-> "read"]
    ELSE [sum |-> sum, ub |-> "none"]

RECURSIVE NaiveJ(_, _, _, _, _)
NaiveJ(A, B, st, i, j) ==
    IF st.ub # "none" \/ ~(j < B.cols) THEN st
    ELSE LET r == NaiveK(A, B, i, j, 0, 0) IN
         IF r.ub # "none" THEN KState(st.C, r.ub)
         ELSE IF ~InBuf(st.C, i, j) THEN KState(st.C, "write")
         ELSE NaiveJ(A, B, KState(MATRIX_SET(st.C, i, j, r.sum), "none"), i, j + 1)

RECURSIVE NaiveI(_, _, _, _)
NaiveI(A, B, st, i) ==
    IF st.ub # "none" \/ ~(i < A.rows) THEN st
    ELSE NaiveI(A, B, NaiveJ(A, B, st, i, 0), i + 1)

matrix_mult_naive(A, B, C) ==
    IF ~PtrsOk(A, B, C) THEN KState(C, "none")
    ELSE IF ~DimsOk(A, B, C) THEN KState(C, "none")
    ELSE NaiveI(A, B, KState(C, "none"), 0)

(***************************************************************************)
(* matrix_mult_tiled: block loops ii, jj, kk; inside a block i-j-k with    *)
(* the k loop unrolled by 4 and a scalar cleanup loop.                     *)
(***************************************************************************)
\* the 4-way unrolled loop: for (; k < k_end - 3; k += 4), k_end - 3 in size_t
RECURSIVE TiledUnrolled(_, _, _, _, _, _, _)
TiledUnrolled(A, B, i, j, k, k_end, sum) ==
    IF k < SizeSub(k_end, 3)
    THEN IF /\ InBuf(A, i, k) /\ InBuf(A, i, k + 1)
            /\ InBuf(A, i, k + 2) /\ InBuf(A, i, k + 3)
            /\ InBuf(B, k, j) /\ InBuf(B, k + 1, j)
            /\ InBuf(B, k + 2, j) /\ InBuf(B, k + 3, j)
         THEN TiledUnrolled(A, B, i, j, SizeAdd(k, 4), k_end,
                  sum + MATRIX_GET(A, i, k)     * MATRIX_GET(B, k,     j)
                      + MATRIX_GET(A, i, k + 1) * MATRIX_GET(B, k + 1, j)
                      + MATRIX_GET(A, i, k + 2) * MATRIX_GET(B, k + 2, j)
                      + MATRIX_GET(A, i, k + 3) * MATRIX_GET(B, k + 3, j))
         ELSE [sum |-> sum, k |-> k, ub |-> "read"]
    ELSE [sum |-> sum, k |-> k, ub |-> "none"]

\* the cleanup loop: for (; k < k_end; k++)
RECURSIVE TiledCleanup(_, _, _, _, _, _, _)
TiledCleanup(A, B, i, j, k, k_end, sum) ==
    IF k < k_end
    THEN IF InBuf(A, i, k) /\ InBuf(B, k, j)
         THEN TiledCleanup(A, B, i, j, k + 1, k_end,
                  sum + MATRIX_GET(A, i, k) * MATRIX_GET(B, k, j))
         ELSE [sum |-> sum, k |-> k, ub |-> "read"]
    ELSE [sum |-> sum, k |-> k, ub |-> "none"]

\* the body of the j loop: sum = C[i][j]; unrolled; cleanup; C[i][j] = sum
TiledCell(A, B, st, i, j, kk, k_end) ==
    IF ~InBuf(st.C, i, j) THEN KState(st.C, "read")
    ELSE LET u == TiledUnrolled(A, B, i, j, kk, k_end, MATRIX_GET(st.C, i, j)) IN
         IF u.ub # "none" THEN KState(st.C, u.ub)
         ELSE LET c == TiledCleanup(A, B, i, j, u.k, k_end, u.sum) IN
              IF c.ub # "none" THEN KState(st.C, c.ub)
              ELSE KState(MATRIX_SET(st.C, i, j, c.sum), "none")

RECURSIVE TiledJ(_, _, _, _, _, _, _, _)
TiledJ(A, B, st, i, j, j_end, kk, k_end) ==
    IF st.ub # "none" \/ ~(j < j_end) THEN st
    ELSE TiledJ(A, B, TiledCell(A, B, st, i, j, kk, k_end), i, j + 1, j_end, kk, k_end)

RECURSIVE TiledI(_, _, _, _, _, _, _, _, _)
TiledI(A, B, st, i, i_end, jj, j_end, kk, k_end) ==
    IF st.ub # "none" \/ ~(i < i_end) THEN st
    ELSE TiledI(A, B, TiledJ(A, B, st, i, jj, j_end, kk, k_end),
                i + 1, i_end, jj, j_end, kk, k_end)

\* tile boundary: (x + tile_size < limit) ? x + tile_size : limit
TileEnd(x, tile_size, limit) ==
    IF SizeAdd(x, tile_size) < limit THEN SizeAdd(x, tile_size) ELSE limit

RECURSIVE TiledKK(_, _, _, _, _, _, _)
TiledKK(A, B, st, ts, ii, jj, kk) ==
    IF st.ub # "none" \/ ~(kk < A.cols) THEN st
    ELSE TiledKK(A, B,
                 TiledI(A, B, st, ii, TileEnd(ii, ts, A.rows),
                        jj, TileEnd(jj, ts, B.cols), kk, TileEnd(kk, ts, A.cols)),
                 ts, ii, jj, SizeAdd(kk, ts))

RECURSIVE TiledJJ(_, _, _, _, _, _)
TiledJJ(A, B, st, ts, ii, jj) ==
    IF st.ub # "none" \/ ~(jj < B.cols) THEN st
    ELSE TiledJJ(A, B, TiledKK(A, B, st, ts, ii, jj, 0), ts, ii, SizeAdd(jj, ts))

RECURSIVE TiledII(_, _, _, _, _)
TiledII(A, B, st, ts, ii) ==
    IF st.ub # "none" \/ ~(ii < A.rows) THEN st
    ELSE TiledII(A, B, TiledJJ(A, B, st, ts, ii, 0), ts, SizeAdd(ii, ts))

matrix_mult_tiled(A, B, C, tile_size) ==
    IF ~PtrsOk(A, B, C) THEN KState(C, "none")
    ELSE IF ~DimsOk(A, B, C) THEN KState(C, "none")
    ELSE TiledII(A, B, KState(matrix_init_zero(C), "none"), tile_size, 0)

(***************************************************************************)
(* matrix_mult_tiled_optimized: block loops ii, kk, jj; i-k-j in a block.  *)
(***************************************************************************)
RECURSIVE TOptJ(_, _, _, _, _, _, _)
TOptJ(B, st, a_ik, i, k, j, j_end) ==
    IF st.ub # "none" \/ ~(j < j_end) THEN st
    ELSE IF ~InBuf(st.C, i, j) THEN KState(st.C, "write")
    ELSE IF ~InBuf(B, k, j) THEN KState(st.C, "read")
    ELSE TOptJ(B, KState(MATRIX_SET(st.C, i, j,
                             MATRIX_GET(st.C, i, j) + a_ik * MATRIX_GET(B, k, j)),
                         "none"),
               a_ik, i, k, j + 1, j_end)

RECURSIVE TOptK(_, _, _, _, _, _, _, _)
TOptK(A, B, st, i, k, k_end, jj, j_end) ==
    IF st.ub # "none" \/ ~(k < k_end) THEN st
    ELSE IF ~InBuf(A, i, k) THEN KState(st.C, "read")
    ELSE TOptK(A, B, TOptJ(B, st, MATRIX_GET(A, i, k), i, k, jj, j_end),
               i, k + 1, k_end, jj, j_end)

RECURSIVE TOptI(_, _, _, _, _, _, _, _, _)
TOptI(A, B, st, i, i_end, kk, k_end, jj, j_end) ==
    IF st.ub # "none" \/ ~(i < i_end) THEN st
    ELSE TOptI(A, B, TOptK(A, B, st, i, kk, k_end, jj, j_end),
               i + 1, i_end, kk, k_end, jj, j_end)

RECURSIVE TOptJJ(_, _, _, _, _, _, _)
TOptJJ(A, B, st, ts, ii, kk, jj) ==
    IF st.ub # "none" \/ ~(jj < B.cols) THEN st
    ELSE TOptJJ(A, B,
                TOptI(A, B, st, ii, TileEnd(ii, ts, A.rows),
                      kk, TileEnd(kk, ts, A.cols), jj, TileEnd(jj, ts, B.cols)),
                ts, ii, kk, SizeAdd(jj, ts))

RECURSIVE TOptKK(_, _, _, _, _, _)
TOptKK(A, B, st, ts, ii, kk) ==
    IF st.ub # "none" \/ ~(kk < A.cols) THEN st
    ELSE TOptKK(A, B, TOptJJ(A, B, st, ts, ii, kk, 0), ts, ii, SizeAdd(kk, ts))

RECURSIVE TOptII(_, _, _, _, _)
TOptII(A, B, st, ts, ii) ==
    IF st.ub # "none" \/ ~(ii < A.rows) THEN st
    ELSE TOptII(A, B, TOptKK(A, B, st, ts, ii, 0), ts, SizeAdd(ii, ts))

matrix_mult_tiled_optimized(A, B, C, tile_size) ==
    IF ~PtrsOk(A, B, C) THEN KState(C, "none")
    ELSE IF ~DimsOk(A, B, C) THEN KState(C, "none")
    ELSE TOptII(A, B, KState(matrix_init_zero(C), "none"), tile_size, 0)

(***************************************************************************)
(* matrix_mult_vector: i-k-j loops, the j loop in chunks of VECTOR_LENGTH  *)
(* lanes and a scalar cleanup loop.                                        *)
(***************************************************************************)
VECTOR_LENGTH == 8
VECTOR_TILE == 64

\* C[i][j] = C[i][j] + a_ik * B[k][j]
MulAcc(B, st, a_ik, i, k, j) ==
    IF ~InBuf(st.C, i, j) THEN KState(st.C, "write")
    ELSE IF ~InBuf(B, k, j) THEN KState(st.C, "read")
    ELSE KState(MATRIX_SET(st.C, i, j,
                    MATRIX_GET(st.C, i, j) + a_ik * MATRIX_GET(B, k, j)), "none")

\* for (vj = 0; vj < VECTOR_LENGTH; vj++) on columns j + vj
RECURSIVE VecLanes(_, _, _, _, _, _, _)
VecLanes(B, st, a_ik, i, k, j, vj) ==
    IF st.ub # "none" \/ ~(vj < VECTOR_LENGTH) THEN st
    ELSE VecLanes(B, MulAcc(B, st, a_ik, i, k, j + vj), a_ik, i, k, j, vj + 1)

\* for (; j <= j_end - VECTOR_LENGTH; j += VECTOR_LENGTH), the bound in size_t;
\* returns the state and the j the cleanup loop starts from
RECURSIVE VecChunks(_, _, _, _, _, _, _)
VecChunks(B, st, a_ik, i, k, j, j_end) ==
    IF st.ub = "none" /\ j <= SizeSub(j_end, VECTOR_LENGTH)
    THEN VecChunks(B, VecLanes(B, st, a_ik, i, k, j, 0), a_ik, i, k,
                   SizeAdd(j, VECTOR_LENGTH), j_end)
    ELSE [st |-> st, j |-> j]

\* for (; j < j_end; j++)
RECURSIVE VecCleanup(_, _, _, _, _, _, _)
VecCleanup(B, st, a_ik, i, k, j, j_end) ==
    IF st.ub # "none" \/ ~(j < j_end) THEN st
    ELSE VecCleanup(B, MulAcc(B, st, a_ik, i, k, j), a_ik, i, k, j + 1, j_end)

\* one (i, k) step: a_ik = A[i][k], the chunks of columns [jj, j_end), the rest
VecRow(A, B, st, i, k, jj, j_end) ==
    IF ~InBuf(A, i, k) THEN KState(st.C, "read")
    ELSE LET a_ik == MATRIX_GET(A, i, k)
             c == VecChunks(B, st, a_ik, i, k, jj, j_end)
         IN  VecCleanup(B, c.st, a_ik, i, k, c.j, j_end)

RECURSIVE VecK(_, _, _, _, _, _, _, _)
VecK(A, B, st, i, k, k_end, jj, j_end) ==
    IF st.ub # "none" \/ ~(k < k_end) THEN st
    ELSE VecK(A, B, VecRow(A, B, st, i, k, jj, j_end), i, k + 1, k_end, jj, j_end)

RECURSIVE VecI(_, _, _, _, _, _, _, _, _)
VecI(A, B, st, i, i_end, kk, k_end, jj, j_end) ==
    IF st.ub # "none" \/ ~(i < i_end) THEN st
    ELSE VecI(A, B, VecK(A, B, st, i, kk, k_end, jj, j_end),
              i + 1, i_end, kk, k_end, jj, j_end)

matrix_mult_vector(A, B, C) ==
    IF ~PtrsOk(A, B, C) THEN KState(C, "none")
    ELSE IF ~DimsOk(A, B, C) THEN KState(C, "none")
    ELSE VecI(A, B, KState(matrix_init_zero(C), "none"),
              0, A.rows, 0, A.cols, 0, B.cols)

(***************************************************************************)
(* matrix_mult_vector_optimized: block loops ii, kk, jj with the fixed     *)
(* tile edge 64, the lane-chunked j loop inside each block.                *)
(***************************************************************************)
RECURSIVE VOptJJ(_, _, _, _, _, _)
VOptJJ(A, B, st, ii, kk, jj) ==
    IF st.ub # "none" \/ ~(jj < B.cols) THEN st
    ELSE VOptJJ(A, B,
                VecI(A, B, st, ii, TileEnd(ii, VECTOR_TILE, A.rows),
                     kk, TileEnd(kk, VECTOR_TILE, A.cols),
                     jj, TileEnd(jj, VECTOR_TILE, B.cols)),
                ii, kk, SizeAdd(jj, VECTOR_TILE))

RECURSIVE VOptKK(_, _, _, _, _)
VOptKK(A, B, st, ii, kk) ==
    IF st.ub # "none" \/ ~(kk < A.cols) THEN st
    ELSE VOptKK(A, B, VOptJJ(A, B, st, ii, kk, 0), ii, SizeAdd(kk, VECTOR_TILE))

RECURSIVE VOptII(_, _, _, _)
VOptII(A, B, st, ii) ==
    IF st.ub # "none" \/ ~(ii < A.rows) THEN st
    ELSE VOptII(A, B, VOptKK(A, B, st, ii, 0), SizeAdd(ii, VECTOR_TILE))

matrix_mult_vector_optimized(A, B, C) ==
    IF ~PtrsOk(A, B, C) THEN KState(C, "none")
    ELSE IF ~DimsOk(A, B, C) THEN KState(C, "none")
    ELSE VOptII(A, B, KState(matrix_init_zero(C), "none"), 0)

(***************************************************************************)
(* Kernel calls on a heap that holds A, B and C.                           *)
(***************************************************************************)

\* element data of the inputs: every buffer over 0..MaxVal for small matrices,
\* four patterns (identity-like, 1..len, all ones, alternating) for larger ones
Pattern(len, cols, t) ==
    [x \in 1..len |->
        CASE t = 0 -> IF (x - 1) \div cols = (x - 1) % cols THEN 1 ELSE 0
          [] t = 1 -> x
          [] t = 2 -> 1
          [] OTHER -> x % 2]

MatSet(r, c) ==
    IF r * c <= ExhaustCells
    THEN {Matrix(r, c, d) : d \in [1..(r * c) -> 0..MaxVal]}
    ELSE {Matrix(r, c, Pattern(r * c, c, t)) : t \in 0..3}

\* what the output matrix holds before the call: zeros, or stale non-zero data
OutSet(r, c) == {Matrix(r, c, [x \in 1..(r * c) |-> v]) : v \in {0, 5}}

\* <<A.rows, A.cols, B.rows, B.cols, C.rows, C.cols>>
CompatShapes ==
    {<<s[1], s[2], s[2], s[3], s[1], s[3]>> :
        s \in {<<1, 1, 1>>, <<1, 2, 1>>, <<2, 2, 2>>, <<1, 3, 1>>, <<3, 1, 1>>,
               <<3, 3, 3>>, <<2, 4, 2>>, <<3, 7, 2>>, <<1, 1, 8>>, <<2, 2, 9>>,
               <<8, 8, 8>>, <<1, 1, 65>>}}

MismatchShapes ==
    {<<2, 2, 1, 2, 2, 2>>, <<1, 1, 1, 1, 2, 1>>, <<1, 1, 1, 1, 1, 2>>,
     <<3, 4, 5, 6, 3, 6>>, <<2, 1, 1, 2, 1, 1>>}

Identity(n) == Matrix(n, n, Pattern(n * n, n, 0))

KernelInputs ==
    UNION {{[A |-> a, B |-> b, C |-> c] :
                a \in MatSet(s[1], s[2]), b \in MatSet(s[3], s[4]),
                c \in OutSet(s[5], s[6])} : s \in CompatShapes \cup MismatchShapes}
    \cup {[A |-> Matrix(2, 2, <<1, 2, 3, 4>>), B |-> Matrix(2, 2, <<5, 6, 7, 8>>),
           C |-> c] : c \in OutSet(2, 2)}
    \cup {[A |-> NullMatrix, B |-> Identity(2), C |-> c] : c \in OutSet(2, 2)}
    \cup {[A |-> Identity(2), B |-> Identity(2), C |-> NullMatrix]}

\* what an out-of-buffer access may leave in a matrix: nothing, or foreign data
Clobber(M) ==
    {M} \cup {[M EXCEPT !.data = [x \in 1..Len(M.data) |-> g]] : g \in {-1, 9}}

KernelInit ==
    /\ pre \in KernelInputs
    /\ mem = pre
    /\ call = [kernel |-> "none", tile |-> 0]
    /\ status = "ready"

\* the call's effect on the heap.  Without an out-of-buffer access C is what the
\* kernel computed.  An out-of-buffer read yields foreign data or a fault; an
\* out-of-buffer write may in addition overwrite the neighbouring buffers.
Outcome(r, kernel, tile_size) ==
    /\ status = "ready"
    /\ call' = [kernel |-> kernel, tile |-> tile_size]
    /\ pre' = pre
    /\ CASE r.ub = "none" ->
              /\ mem' = [mem EXCEPT !.C = r.C]
              /\ status' = "returned"
         [] r.ub = "read" ->
              /\ \E c \in Clobber(r.C) : mem' = [mem EXCEPT !.C = c]
              /\ status' \in {"returned", "crashed"}
         [] OTHER ->
              /\ \E a \in Clobber(mem.A), b \in Clobber(mem.B), c \in Clobber(r.C) :
                    mem' = [A |-> a, B |-> b, C |-> c]
              /\ status' \in {"returned", "crashed"}

CallNaive ==
    /\ Outcome(matrix_mult_naive(mem.A, mem.B, mem.C), "naive", 0)
    /\ UNCHANGED <<cvars, vvars, tvars, rvars, hvars, bvars>>

CallTiled ==
    /\ \E ts \in 1..MaxTile :
            Outcome(matrix_mult_tiled(mem.A, mem.B, mem.C, ts), "tiled", ts)
    /\ UNCHANGED <<cvars, vvars, tvars, rvars, hvars, bvars>>

CallTiledOptimized ==
    /\ \E ts \in 1..MaxTile :
            Outcome(matrix_mult_tiled_optimized(mem.A, mem.B, mem.C, ts),
                    "tiled_optimized", ts)
    /\ UNCHANGED <<cvars, vvars, tvars, rvars, hvars, bvars>>

CallVector ==
    /\ Outcome(matrix_mult_vector(mem.A, mem.B, mem.C), "vector", 0)
    /\ UNCHANGED <<cvars, vvars, tvars, rvars, hvars, bvars>>

CallVectorOptimized ==
    /\ Outcome(matrix_mult_vector_optimized(mem.A, mem.B, mem.C), "vector_optimized", 0)
    /\ UNCHANGED <<cvars, vvars, tvars, rvars, hvars, bvars>>

KernelNext ==
    \/ CallNaive
    \/ CallTiled
    \/ CallTiledOptimized
    \/ CallVector
    \/ CallVectorOptimized

(***************************************************************************)
(* Properties of the kernels.                                              *)
(***************************************************************************)
RECURSIVE Sigma(_, _, _, _, _)
Sigma(A, B, i, j, k) ==
    IF k = 0 THEN 0
    ELSE Sigma(A, B, i, j, k - 1)
         + A.data[i * A.cols + k] * B.data[(k - 1) * B.cols + j + 1]

\* the matrix product: element (i, j) is the sum over k of A[i][k]*B[k][j]
MatProduct(A, B) ==
    [x \in 1..(A.rows * B.cols) |->
        Sigma(A, B, (x - 1) \div B.cols, (x - 1) % B.cols, A.cols)]

Called == status \in {"returned", "crashed"}
\* the dimension-compatibility of A (n x m), B (m x p), C (n x p) the claims name
DimensionCompatible(A, B, C) ==
    A.cols = B.rows /\ C.rows = A.rows /\ C.cols = B.cols
NonNull == pre.A.alloc /\ pre.B.alloc /\ pre.C.alloc
Compatible == NonNull /\ DimensionCompatible(pre.A, pre.B, pre.C)

\* no block of the k loop ends below 3 and no row is shorter than a lane chunk
NoWrap ==
    /\ call.kernel = "tiled" => (call.tile >= 3 /\ pre.A.cols >= 3)
    /\ call.kernel \in {"vector", "vector_optimized"} => pre.B.cols >= VECTOR_LENGTH

\* On compatible inputs whose unsigned loop bounds do not wrap, every kernel
\* returns with C equal to the matrix product.
KernelsComputeProductNoWrap ==
    (Called /\ Compatible /\ NoWrap) =>
        (status = "returned" /\ mem.C.data = MatProduct(pre.A, pre.B))

\* C1: for dimension-compatible A (n x m), B (m x p), C (n x p) and every
\* tile_size in [1, n], matrix_mult_naive, matrix_mult_tiled and
\* matrix_mult_vector each return with every C[i][j] equal to the sum over k of
\* A[i][k]*B[k][j]; in particular [[1,2],[3,4]] * [[5,6],[7,8]] gives
\* [[19,22],[43,50]] for the tiled kernel with tile_size 1 and 2.
C1_KernelsComputeProduct ==
    (/\ Called /\ Compatible
     /\ call.kernel \in {"naive", "tiled", "vector"}
     /\ call.kernel = "tiled" => call.tile \in 1..pre.A.rows)
    => (status = "returned" /\ mem.C.data = MatProduct(pre.A, pre.B))

\* the concrete scenario of C1 alone
C1_Scenario ==
    (/\ Called /\ call.kernel = "tiled" /\ call.tile \in {1, 2}
     /\ pre.A = Matrix(2, 2, <<1, 2, 3, 4>>) /\ pre.B = Matrix(2, 2, <<5, 6, 7, 8>>))
    => (status = "returned" /\ mem.C.data = <<19, 22, 43, 50>>)

\* C2: a kernel call in which A.cols # B.rows or C.rows # A.rows or
\* C.cols # B.cols returns and leaves every element of C (and the rest of the
\* heap) as it was before the call, whatever C held.
C2_MismatchIsNoOp ==
    (Called /\ NonNull /\ ~DimensionCompatible(pre.A, pre.B, pre.C))
    => (status = "returned" /\ mem = pre)

\* a mismatched call on a C that held non-zero data has returned
C2_Witness ==
    /\ status = "returned"
    /\ call.kernel = "vector_optimized"
    /\ NonNull
    /\ pre.C.cols # pre.B.cols
    /\ \E x \in DOMAIN pre.C.data : pre.C.data[x] # 0

IsIdentity(M) == M.alloc /\ M.rows = M.cols /\ M = Identity(M.rows)

\* C5: for square n x n operands, each kernel (naive, tiled with tile_size in
\* [1, n], vector) returns C = M when the other operand is the identity, for
\* every n >= 1.
C5_IdentityIsNeutral ==
    (/\ Called /\ Compatible
     /\ pre.A.rows = pre.A.cols /\ pre.B.rows = pre.B.cols
     /\ call.kernel \in {"naive", "tiled", "vector"}
     /\ call.kernel = "tiled" => call.tile \in 1..pre.A.rows)
    => /\ IsIdentity(pre.B) => (status = "returned" /\ mem.C.data = pre.A.data)
       /\ IsIdentity(pre.A) => (status = "returned" /\ mem.C.data = pre.B.data)

\* C7: a call of matrix_mult_naive, matrix_mult_tiled or matrix_mult_vector
\* leaves A.rows, A.cols, B.rows, B.cols and every element of A and of B as
\* they were; only C may change.
C7_InputsUnchanged ==
    (Called /\ call.kernel \in {"naive", "tiled", "vector"})
    => (mem.A = pre.A /\ mem.B = pre.B)

\* the kernels that write C only inside its buffer leave A and B alone
InputsUnchangedWithoutLaneWrap ==
    (Called /\ (call.kernel \in {"vector", "vector_optimized"} =>
                    (Compatible => pre.B.cols >= VECTOR_LENGTH)))
    => (mem.A = pre.A /\ mem.B = pre.B)

\* the C of the call with every element set to zero, as a caller would pass it
ZeroedC == [pre.C EXCEPT !.data = [x \in 1..Len(pre.C.data) |-> 0]]

\* what the called kernel computes from A and B when C was zeroed by the caller
OnZeroedC ==
    CASE call.kernel = "naive" -> matrix_mult_naive(pre.A, pre.B, ZeroedC)
      [] call.kernel = "tiled" -> matrix_mult_tiled(pre.A, pre.B, ZeroedC, call.tile)
      [] call.kernel = "tiled_optimized" ->
            matrix_mult_tiled_optimized(pre.A, pre.B, ZeroedC, call.tile)
      [] call.kernel = "vector" -> matrix_mult_vector(pre.A, pre.B, ZeroedC)
      [] OTHER -> matrix_mult_vector_optimized(pre.A, pre.B, ZeroedC)

\* C11: on dimension-compatible inputs a call of matrix_mult_naive,
\* matrix_mult_tiled or matrix_mult_vector returns with C holding what the
\* kernel computes from A and B alone: the same elements whether C held zeros or
\* other data before the call.
C11_OutputIgnoresPriorC ==
    (Called /\ Compatible /\ call.kernel \in {"naive", "tiled", "vector"})
    => (status = "returned" /\ OnZeroedC.ub = "none" /\ mem.C = OnZeroedC.C)

\* the same for the calls whose unsigned loop bounds do not wrap, all kernels
OutputIgnoresPriorCNoWrap ==
    (Called /\ Compatible /\ NoWrap)
    => (status = "returned" /\ OnZeroedC.ub = "none" /\ mem.C = OnZeroedC.C)

\* of matrix_mult_tiled and matrix_mult_tiled_optimized, the one not called
OtherTiled ==
    IF call.kernel = "tiled"
    THEN matrix_mult_tiled_optimized(pre.A, pre.B, pre.C, call.tile)
    ELSE matrix_mult_tiled(pre.A, pre.B, pre.C, call.tile)

\* C12: on dimension-compatible inputs and for every tile_size >= 1,
\* matrix_mult_tiled and matrix_mult_tiled_optimized both return and leave the
\* same C, also when tile_size does not divide the extents and when tile_size
\* or the inner extent is below 4.
C12_TiledVariantsAgree ==
    (Called /\ Compatible /\ call.kernel \in {"tiled", "tiled_optimized"}
            /\ call.tile >= 1)
    => (status = "returned" /\ OtherTiled.ub = "none" /\ mem.C = OtherTiled.C)

\* the two variants agree when no k-block of matrix_mult_tiled ends below 3
TiledVariantsAgreeNoWrap ==
    (Called /\ Compatible /\ call.kernel \in {"tiled", "tiled_optimized"}
            /\ call.tile >= 3 /\ pre.A.cols >= 3)
    => (status = "returned" /\ OtherTiled.ub = "none" /\ mem.C = OtherTiled.C)

\* C13: a call of matrix_mult_tiled on dimension-compatible inputs with
\* tile_size >= 1 makes no access outside the matrices (the unrolled loop reads
\* only k, k+1, k+2, k+3 < m) and accumulates every k exactly once, so that it
\* returns with the product; also when a k-block ends below 3.
C13_TiledStaysInBounds ==
    (Called /\ Compatible /\ call.kernel = "tiled" /\ call.tile >= 1)
    => /\ matrix_mult_tiled(pre.A, pre.B, pre.C, call.tile).ub = "none"
       /\ status = "returned"
       /\ mem.C.data = MatProduct(pre.A, pre.B)

\* matrix_mult_tiled leaves the buffers exactly when a k-block ends below 3
TiledLeavesBufferIffWrap ==
    (Called /\ Compatible /\ call.kernel = "tiled" /\ call.tile >= 1)
    => (matrix_mult_tiled(pre.A, pre.B, pre.C, call.tile).ub = "none"
            <=> (call.tile >= 3 /\ pre.A.cols >= 3))

\* C14: a call of matrix_mult_vector or matrix_mult_vector_optimized on
\* dimension-compatible inputs touches only columns j + v < p and adds
\* a_ik*B[k][j] to every column j exactly once per (i, k), so that it returns
\* with the product; also when p < 8.
C14_VectorStaysInBounds ==
    (Called /\ Compatible /\ call.kernel \in {"vector", "vector_optimized"})
    => /\ OnZeroedC.ub = "none"
       /\ status = "returned"
       /\ mem.C.data = MatProduct(pre.A, pre.B)

\* the vector kernels leave the buffers exactly when a row has fewer than
\* VECTOR_LENGTH columns
VectorLeavesBufferIffWrap ==
    (Called /\ Compatible /\ call.kernel \in {"vector", "vector_optimized"})
    => (OnZeroedC.ub = "none" <=> pre.B.cols >= VECTOR_LENGTH)

(***************************************************************************)
(* matrix_create and the aligned allocator.  A created matrix is described *)
(* by its extents and by buflen, the number of doubles its buffer holds.   *)
(***************************************************************************)
SIZEOF_DOUBLE == 8
MEMORY_ALIGNMENT == 32

NoBuffer == [ok |-> FALSE, bytes |-> 0]
NullHandle == [alloc |-> FALSE, rows |-> 0, cols |-> 0, buflen |-> 0]

\* posix_memalign either fails or hands out a buffer of the size asked for; for
\* size 0 it hands out NULL or a unique pointer, both are among the outcomes
aligned_malloc(size, alignment) ==
    {NoBuffer, [ok |-> TRUE, bytes |-> size]}

\* the outcomes of matrix_create(rows, cols)
matrix_create(rows, cols) ==
    {NullHandle}
    \cup {IF buf.ok
          THEN [alloc |-> TRUE, rows |-> rows, cols |-> cols,
                buflen |-> buf.bytes \div SIZEOF_DOUBLE]
          ELSE NullHandle :
            buf \in aligned_malloc(SizeMul(SizeMul(rows, cols), SIZEOF_DOUBLE),
                                   MEMORY_ALIGNMENT)}

\* extents around zero, ordinary ones, and ones whose byte size exceeds size_t
CreateExtents == {0, 1, 2, 3, 4, 7, 64, SizeMod \div 8, SizeMod \div 8 + 1}

CreateInit ==
    /\ create_req \in {rc \in CreateExtents \X CreateExtents :
                          rc[1] <= 64 \/ rc[2] <= 64}
    /\ create_ret = NullHandle
    /\ create_pc = "call"

CallCreate ==
    /\ create_pc = "call"
    /\ create_ret' \in matrix_create(create_req[1], create_req[2])
    /\ create_pc' = "done"
    /\ UNCHANGED create_req
    /\ UNCHANGED <<kvars, vvars, tvars, rvars, hvars, bvars>>

CreateNext == CallCreate

\* C3: matrix_create(rows, cols) returns NULL whenever rows = 0 or cols = 0; a
\* Matrix is returned only with rows >= 1, cols >= 1 and a buffer of exactly
\* rows*cols elements.
C3_CreateContract ==
    create_pc = "done" =>
        /\ (create_req[1] = 0 \/ create_req[2] = 0) => ~create_ret.alloc
        /\ create_ret.alloc =>
              /\ create_ret.rows >= 1 /\ create_ret.cols >= 1
              /\ create_ret.buflen = create_ret.rows * create_ret.cols

\* what the code does guarantee: the extents stored are the ones asked for and
\* the buffer holds rows*cols*sizeof(double) bytes modulo the width of size_t
CreateStoresExtents ==
    (create_pc = "done" /\ create_ret.alloc) =>
        /\ create_ret.rows = create_req[1] /\ create_ret.cols = create_req[2]
        /\ create_ret.buflen =
              SizeMul(SizeMul(create_req[1], create_req[2]), SIZEOF_DOUBLE)
                  \div SIZEOF_DOUBLE

(***************************************************************************)
(* matrix_verify.  Its elements are doubles that may be NaN: a double is   *)
(* [nan |-> TRUE] or a finite value v.  Every comparison with a NaN        *)
(* operand is false, as in IEEE 754.                                       *)
(***************************************************************************)
Dbl(v) == [nan |-> FALSE, v |-> v]
NaN == [nan |-> TRUE, v |-> 0]

DSub(a, b) == IF a.nan \/ b.nan THEN NaN ELSE Dbl(a.v - b.v)
fabs(a) == IF a.nan THEN NaN ELSE Dbl(IF a.v < 0 THEN -a.v ELSE a.v)
DGreater(a, b) == ~a.nan /\ ~b.nan /\ a.v > b.v
DLessEq(a, b) == ~a.nan /\ ~b.nan /\ a.v <= b.v

\* for (i = 0; i < rows*cols; i++) { diff = fabs(A[i] - B[i]);
\*                                   if (diff > tolerance) return 0; } return 1;
RECURSIVE VerifyLoop(_, _, _, _)
VerifyLoop(A, B, tolerance, i) ==
    IF i < SizeMul(A.rows, A.cols)
    THEN IF DGreater(fabs(DSub(A.data[i + 1], B.data[i + 1])), tolerance)
         THEN 0
         ELSE VerifyLoop(A, B, tolerance, i + 1)
    ELSE 1

matrix_verify(A, B, tolerance) ==
    IF ~A.alloc \/ ~B.alloc THEN 0
    ELSE IF A.rows # B.rows \/ A.cols # B.cols THEN 0
    ELSE VerifyLoop(A, B, tolerance, 0)

VerifyValues == {Dbl(0), Dbl(1), Dbl(3), NaN}
VerifyTolerances == {Dbl(0), Dbl(1), Dbl(2), Dbl(-1), NaN}
VerifyShapes == {<<1, 1>>, <<1, 2>>, <<2, 1>>, <<1, 3>>}

VerifyMatrices ==
    UNION {{Matrix(s[1], s[2], d) : d \in [1..(s[1] * s[2]) -> VerifyValues]} :
              s \in VerifyShapes}

VerifyInit ==
    /\ verify_in \in
          [A : VerifyMatrices, B : VerifyMatrices, tolerance : VerifyTolerances]
          \cup {[A |-> NullMatrix, B |-> Matrix(1, 1, <<Dbl(0)>>), tolerance |-> Dbl(0)]}
    /\ verify_ret = -1
    /\ verify_pc = "call"

CallVerify ==
    /\ verify_pc = "call"
    /\ verify_ret' = matrix_verify(verify_in.A, verify_in.B, verify_in.tolerance)
    /\ verify_pc' = "done"
    /\ UNCHANGED verify_in
    /\ UNCHANGED <<kvars, cvars, tvars, rvars, hvars, bvars>>

VerifyNext == CallVerify

SameExtents(A, B) == A.alloc /\ B.alloc /\ A.rows = B.rows /\ A.cols = B.cols

\* |A[i] - B[i]| <= tolerance at every linear index
AllWithin(A, B, tolerance) ==
    \A x \in 1..(A.rows * A.cols) :
        DLessEq(fabs(DSub(A.data[x], B.data[x])), tolerance)

\* no element, nor the tolerance, is NaN
AllFinite(in) ==
    /\ ~in.tolerance.nan
    /\ \A x \in DOMAIN in.A.data : ~in.A.data[x].nan
    /\ \A x \in DOMAIN in.B.data : ~in.B.data[x].nan

\* C4: matrix_verify returns 0 whenever A and B differ in rows or in cols, and
\* otherwise returns 1 if and only if |A[i] - B[i]| <= tolerance for every
\* linear index i in [0, rows*cols).
C4_VerifyContract ==
    verify_pc = "done" =>
        IF SameExtents(verify_in.A, verify_in.B)
        THEN verify_ret = 1 <=>
                AllWithin(verify_in.A, verify_in.B, verify_in.tolerance)
        ELSE verify_ret = 0

\* the same contract for finite elements and a finite tolerance
VerifyContractFinite ==
    (verify_pc = "done" /\ AllFinite(verify_in)) => C4_VerifyContract

(***************************************************************************)
(* calculate_optimal_tile_size(cache_size_bytes, element_size).            *)
(***************************************************************************)
TILE_MIN == 8
TILE_MAX == 256

\* tile_size = 1; while (tile_size * tile_size <= elements_per_tile) tile_size++;
\* TileSqrtStep is one test-and-increment of the loop (the identity once the
\* test fails); TileSqrtLoop takes eight of them per level of recursion.
TileSqrtStep(tile_size, elements_per_tile) ==
    IF (tile_size * tile_size) % SizeMod <= elements_per_tile
    THEN SizeAdd(tile_size, 1)
    ELSE tile_size

TileSqrtStep4(t, e) == TileSqrtStep(TileSqrtStep(TileSqrtStep(TileSqrtStep(t, e), e), e), e)

RECURSIVE TileSqrtLoop(_, _)
TileSqrtLoop(tile_size, elements_per_tile) ==
    IF (tile_size * tile_size) % SizeMod <= elements_per_tile
    THEN TileSqrtLoop(TileSqrtStep4(TileSqrtStep4(tile_size, elements_per_tile),
                                    elements_per_tile),
                      elements_per_tile)
    ELSE tile_size

\* power_of_2 = 1; while (power_of_2 <= tile_size) power_of_2 <<= 1;
RECURSIVE TilePow2Loop(_, _)
TilePow2Loop(power_of_2, tile_size) ==
    IF power_of_2 <= tile_size
    THEN TilePow2Loop((power_of_2 * 2) % SizeMod, tile_size)
    ELSE power_of_2

calculate_optimal_tile_size(cache_size_bytes, element_size) ==
    LET usable_cache == cache_size_bytes \div 4
        elements_per_tile == usable_cache \div ((3 * element_size) % SizeMod)
        root == SizeSub(TileSqrtLoop(1, elements_per_tile), 1)
        clamped == IF root < TILE_MIN THEN TILE_MIN
                   ELSE IF root > TILE_MAX THEN TILE_MAX ELSE root
    IN  TilePow2Loop(1, clamped) \div 2

\* cache sizes around the clamp limits and the powers of two, the L1/L2 sizes
TileCaches ==
    {0, 1, 95, 96, 767, 768, 972, 3071, 3072, 4096, 12288, 32768, 49152,
     196608, 262144, 786431, 786432, 792588, 800000}

\* element sizes: ordinary ones, and ones above a third of the size_t range
TileElements == {1, 2, 4, 8, 16, 1000}
TileElementsWide == {SizeMod \div 3 + 1, SizeMod \div 2, SizeMod - 1}

TileInit ==
    /\ tile_in \in (TileCaches \X TileElements)
                  \cup ({c \in TileCaches : c <= 262144} \X TileElementsWide)
    /\ tile_ret = 0
    /\ tile_pc = "call"

CallTileSize ==
    /\ tile_pc = "call"
    /\ tile_ret' = calculate_optimal_tile_size(tile_in[1], tile_in[2])
    /\ tile_pc' = "done"
    /\ UNCHANGED tile_in
    /\ UNCHANGED <<kvars, cvars, vvars, rvars, hvars, bvars>>

TileNext == CallTileSize

\* floor(sqrt(x)) and the largest power of two not exceeding x, as numbers
ISqrt(x) == CHOOSE t \in 0..1024 : t * t <= x /\ (t + 1) * (t + 1) > x
Pow2Floor(x) == CHOOSE q \in {2 ^ e : e \in 0..10} : q <= x /\ 2 * q > x
Clamp(x, lo, hi) == IF x < lo THEN lo ELSE IF x > hi THEN hi ELSE x

IsPow2(x) == \E e \in 0..10 : x = 2 ^ e

\* C6: for every cache_size_bytes >= 0 and element_size >= 1 the result is a
\* power of two in [8, 256], the largest power of two not exceeding
\* clamp(floor(sqrt((cache_size_bytes / 4) / (3 * element_size))), 8, 256);
\* for cache_size_bytes = 32768 and element_size = 8 it is 16.
C6_TileSizeFormula ==
    tile_pc = "done" =>
        /\ IsPow2(tile_ret) /\ tile_ret >= 8 /\ tile_ret <= 256
        /\ tile_ret =
              Pow2Floor(Clamp(ISqrt((tile_in[1] \div 4) \div (3 * tile_in[2])),
                              8, 256))
        /\ tile_in = <<32768, 8>> => tile_ret = 16

\* the result is always a power of two in [8, 256]
TileSizeRange ==
    tile_pc = "done" => (IsPow2(tile_ret) /\ tile_ret >= 8 /\ tile_ret <= 256)

\* the formula, for element sizes whose triple fits size_t
TileSizeFormulaNoWrap ==
    (tile_pc = "done" /\ 3 * tile_in[2] < SizeMod) => C6_TileSizeFormula

(***************************************************************************)
(* The pseudo-random generator and matrix_init_random.                     *)
(*                                                                         *)
(* random_seed is a 32-bit unsigned int, held here as <<hi, lo>>, its two  *)
(* 16-bit halves, so that no intermediate product exceeds 31 bits.  The    *)
(* double random_double returns is min + r * (max - min) with              *)
(* r = (random_seed & 0x7FFFFFFF) / 0x7FFFFFFF; it is held as the record   *)
(* [num, min, max] of the numerator of r and the two limits.               *)
(***************************************************************************)
LCG_A == 1103515245
LCG_C == 12345
HALF == 2 ^ 16

U32(n) == <<n \div HALF, n % HALF>>
RANDOM_SEED_INITIAL == U32(1)

\* random_seed * 1103515245 + 12345, modulo 2^32
LcgNext(seed) ==
    LET ah == LCG_A \div HALF
        al == LCG_A % HALF
        p0 == seed[2] * al + LCG_C
        hi == (((seed[1] * al) % HALF) + ((seed[2] * ah) % HALF) + (p0 \div HALF)) % HALF
    IN  <<hi, (p0 % HALF)>>

\* random_seed & 0x7FFFFFFF
Mask31(seed) == (seed[1] % (HALF \div 2)) * HALF + seed[2]

\* (a seed_random that does not store the seed)
seed_random_keep(random_seed, seed) == random_seed
seed_random(random_seed, seed) == seed

\* the new generator state and the value returned
random_double(random_seed, min, max) ==
    LET next == LcgNext(random_seed) IN
    [random_seed |-> next,
     value |-> [num |-> Mask31(next), min |-> min, max |-> max]]

\* for (i = 0; i < rows*cols; i++) data[i] = random_double(min, max);
\* g is the generator state and the list of states it went through
RECURSIVE InitRandomLoop(_, _, _, _, _)
InitRandomLoop(mat, g, min, max, i) ==
    IF i < SizeMul(mat.rows, mat.cols)
    THEN LET d == random_double(g.random_seed, min, max) IN
         InitRandomLoop([mat EXCEPT !.data[i + 1] = d.value],
                        [random_seed |-> d.random_seed,
                         trace |-> Append(g.trace, d.random_seed)],
                        min, max, i + 1)
    ELSE [mat |-> mat, g |-> g]

matrix_init_random(mat, g, min, max) ==
    IF ~mat.alloc THEN [mat |-> mat, g |-> g]
    ELSE InitRandomLoop(mat, g, min, max, 0)

MaxDraws == 2

RandSeeds == {U32(0), U32(1), U32(42), U32(12345), <<HALF - 1, HALF - 1>>}
RandShapes == {<<1, 1>>, <<1, 2>>, <<2, 2>>, <<2, 3>>}
RandLimits == {<<-1, 1>>, <<0, 5>>}

\* a freshly created rows x cols matrix; its elements are not yet written
Fresh(rows, cols) ==
    Matrix(rows, cols, [x \in 1..(rows * cols) |-> [num |-> 0, min |-> 0, max |-> 0]])

RandInit ==
    /\ rand_cfg \in [seed : RandSeeds, shape : RandShapes, limits : RandLimits]
    /\ rnd = [k \in {1, 2} |->
                [random_seed |-> RANDOM_SEED_INITIAL, trace |-> << >>, draws |-> 0,
                 A |-> Fresh(rand_cfg.shape[1], rand_cfg.shape[2]),
                 B |-> Fresh(rand_cfg.shape[1], rand_cfg.shape[2]),
                 pc |-> "start"]]

\* the generator is used before the seed is set
EarlierDraw(k) ==
    /\ rnd[k].pc = "start"
    /\ rnd[k].draws < MaxDraws
    /\ rnd' = [rnd EXCEPT
                 ![k].random_seed = random_double(@, 0, 1).random_seed,
                 ![k].draws = @ + 1]
    /\ UNCHANGED rand_cfg
    /\ UNCHANGED <<kvars, cvars, vvars, tvars, hvars, bvars>>

SeedRandom(k) ==
    /\ rnd[k].pc = "start"
    /\ rnd' = [rnd EXCEPT
                 ![k].random_seed = seed_random(@, rand_cfg.seed),
                 ![k].pc = "seeded"]
    /\ UNCHANGED rand_cfg
    /\ UNCHANGED <<kvars, cvars, vvars, tvars, hvars, bvars>>

InitRandomA(k) ==
    /\ rnd[k].pc = "seeded"
    /\ LET r == matrix_init_random(rnd[k].A,
                    [random_seed |-> rnd[k].random_seed, trace |-> rnd[k].trace],
                    rand_cfg.limits[1], rand_cfg.limits[2])
       IN rnd' = [rnd EXCEPT ![k].A = r.mat,
                             ![k].random_seed = r.g.random_seed,
                             ![k].trace = r.g.trace,
                             ![k].pc = "filledA"]
    /\ UNCHANGED rand_cfg
    /\ UNCHANGED <<kvars, cvars, vvars, tvars, hvars, bvars>>

InitRandomB(k) ==
    /\ rnd[k].pc = "filledA"
    /\ LET r == matrix_init_random(rnd[k].B,
                    [random_seed |-> rnd[k].random_seed, trace |-> rnd[k].trace],
                    rand_cfg.limits[1], rand_cfg.limits[2])
       IN rnd' = [rnd EXCEPT ![k].B = r.mat,
                             ![k].random_seed = r.g.random_seed,
                             ![k].trace = r.g.trace,
                             ![k].pc = "done"]
    /\ UNCHANGED rand_cfg
    /\ UNCHANGED <<kvars, cvars, vvars, tvars, hvars, bvars>>

RandNext ==
    \E k \in {1, 2} :
        \/ EarlierDraw(k)
        \/ SeedRandom(k)
        \/ InitRandomA(k)
        \/ InitRandomB(k)

\* the generator state after i steps from seed
RECURSIVE LcgIter(_, _)
LcgIter(seed, i) == IF i = 0 THEN seed ELSE LcgNext(LcgIter(seed, i - 1))

Cells == rand_cfg.shape[1] * rand_cfg.shape[2]

\* C10: two executions of seed_random(s) followed by matrix_init_random with
\* the same extents, min and max go through the same generator states, one
\* step state' = (state*1103515245 + 12345) mod 2^32 per element in row-major
\* order, and produce the same element at every index, for A and then B.
C10_SeedDeterminism ==
    /\ (rnd[1].pc = "done" /\ rnd[2].pc = "done") =>
          /\ rnd[1].A = rnd[2].A /\ rnd[1].B = rnd[2].B
          /\ rnd[1].trace = rnd[2].trace
    /\ \A k \in {1, 2} : rnd[k].pc = "done" =>
          /\ Len(rnd[k].trace) = 2 * Cells
          /\ \A i \in 1..(2 * Cells) : rnd[k].trace[i] = LcgIter(rand_cfg.seed, i)
          /\ \A i \in 1..Cells :
                /\ rnd[k].A.data[i].num = Mask31(LcgIter(rand_cfg.seed, i))
                /\ rnd[k].B.data[i].num = Mask31(LcgIter(rand_cfg.seed, Cells + i))
          \* 42 * 1103515245 + 12345 = 3397979675 (mod 2^32) = 51849 * 2^16 + 3611
          /\ rand_cfg.seed = U32(42) =>
                /\ rnd[k].trace[1] = <<51849, 3611>>
                /\ rnd[k].A.data[1].num = 1250496027

\* both executions are done, on the harness's seed 42, after the generator was
\* used a different number of times before the seed was set
C10_Witness ==
    /\ rnd[1].pc = "done" /\ rnd[2].pc = "done"
    /\ rnd[1].draws # rnd[2].draws
    /\ rand_cfg.seed = U32(42) /\ rand_cfg.shape = <<2, 2>>
    /\ rnd[1].A.data[1].num = Mask31(LcgNext(U32(42)))

(***************************************************************************)
(* The benchmark harness, main.  A command-line argument is the sequence   *)
(* of its characters.                                                      *)
(***************************************************************************)
DEFAULT_MATRIX_SIZE == 512
DEFAULT_TILE_SIZE == 64

Digits == {"0", "1", "2", "3", "4", "5", "6", "7", "8", "9"}
DigitVal(c) ==
    CASE c = "0" -> 0 [] c = "1" -> 1 [] c = "2" -> 2 [] c = "3" -> 3
      [] c = "4" -> 4 [] c = "5" -> 5 [] c = "6" -> 6 [] c = "7" -> 7
      [] c = "8" -> 8 [] OTHER -> 9

RECURSIVE SkipSpace(_, _)
SkipSpace(a, i) ==
    IF i <= Len(a) /\ a[i] = " " THEN SkipSpace(a, i + 1) ELSE i

RECURSIVE ParseDigits(_, _, _)
ParseDigits(a, i, acc) ==
    IF i <= Len(a) /\ a[i] \in Digits
    THEN ParseDigits(a, i + 1, acc * 10 + DigitVal(a[i]))
    ELSE acc

\* atoi of the C library: leading blanks, an optional sign, then the digits up
\* to the first character that is none; 0 when there are no digits
atoi(a) ==
    LET i == SkipSpace(a, 1)
        signed == i <= Len(a) /\ a[i] \in {"+", "-"}
        v == ParseDigits(a, IF signed THEN i + 1 ELSE i, 0)
    IN  IF signed /\ a[i] = "-" THEN -v ELSE v

\* (size_t)v for an int v
ToSize(v) == ((v % SizeMod) + SizeMod) % SizeMod

IsHelp(a) == a = <<"-", "h">> \/ a = <<"-", "-", "h", "e", "l", "p">>
IsVerify(a) == a = <<"-", "v">> \/ a = <<"-", "-", "v", "e", "r", "i", "f", "y">>
IsTile(a) == a = <<"-", "t">>

\* the argument loop of main; args is argv without the program name, o holds
\* matrix_size, tile_size, verify_results and ret, the value main returns from
\* inside the loop (-1: it does not return there)
RECURSIVE ParseLoop(_, _, _)
ParseLoop(args, i, o) ==
    IF i > Len(args) THEN o
    ELSE IF IsHelp(args[i]) THEN [o EXCEPT !.ret = 0]
    ELSE IF IsVerify(args[i])
         THEN ParseLoop(args, i + 1, [o EXCEPT !.verify_results = 1])
    ELSE IF IsTile(args[i])
         THEN IF i + 1 <= Len(args)
              THEN LET t == ToSize(atoi(args[i + 1])) IN
                   IF t = 0 THEN [o EXCEPT !.tile_size = t, !.ret = 1]
                   ELSE ParseLoop(args, i + 2, [o EXCEPT !.tile_size = t])
              ELSE [o EXCEPT !.ret = 1]
    ELSE LET n == ToSize(atoi(args[i])) IN
         IF n = 0 THEN [o EXCEPT !.matrix_size = n, !.ret = 1]
         ELSE ParseLoop(args, i + 1, [o EXCEPT !.matrix_size = n])

\* the loop, then the validation of matrix_size and the clamp of tile_size
ParseAndValidate(args) ==
    LET o == ParseLoop(args, 1,
                 [matrix_size |-> DEFAULT_MATRIX_SIZE, tile_size |-> DEFAULT_TILE_SIZE,
                  verify_results |-> 0, ret |-> -1])
    IN  IF o.ret # -1 THEN o
        ELSE IF o.matrix_size < 2 THEN [o EXCEPT !.ret = 1]
        ELSE IF o.tile_size > o.matrix_size
             THEN [o EXCEPT !.tile_size = o.matrix_size]
             ELSE o

MaxArgs == 2

ArgTokens ==
    {<<"-", "h">>, <<"-", "v">>, <<"-", "-", "v", "e", "r", "i", "f", "y">>,
     <<"-", "t">>, <<"0">>, <<"1">>, <<"2">>, <<"3">>, <<"8">>, <<"1", "2">>,
     <<"-", "1">>, <<"-", "5">>, <<"a", "b", "c">>, <<"2", "x">>, <<"+", "3">>,
     <<" ", "4">>}

MatNames == {"A", "B", "C_naive", "C_tiled", "C_vector"}

MainInit ==
    /\ argv \in UNION {[1..n -> ArgTokens] : n \in 0..MaxArgs}
    /\ use_vector \in BOOLEAN
    /\ pc = "start"
    /\ opts = [matrix_size |-> DEFAULT_MATRIX_SIZE, tile_size |-> DEFAULT_TILE_SIZE,
               verify_results |-> 0]
    /\ mats = [m \in MatNames |-> NullHandle]
    /\ destroys = [m \in MatNames |-> 0]
    /\ exit_code = -1

\* lines 33-70: parse and validate the arguments
ParseArguments ==
    /\ pc = "start"
    /\ LET o == ParseAndValidate(argv) IN
       /\ opts' = [matrix_size |-> o.matrix_size, tile_size |-> o.tile_size,
                   verify_results |-> o.verify_results]
       /\ IF o.ret # -1
          THEN pc' = "exit" /\ exit_code' = o.ret
          ELSE pc' = "alloc" /\ exit_code' = exit_code
    /\ UNCHANGED <<argv, use_vector, mats, destroys>>
    /\ UNCHANGED <<kvars, cvars, vvars, tvars, rvars, bvars>>

\* lines 92-102: create A, B, C_naive, C_tiled; return 1 if one of them is NULL
AllocateMatrices ==
    /\ pc = "alloc"
    /\ \E a \in matrix_create(opts.matrix_size, opts.matrix_size),
          b \in matrix_create(opts.matrix_size, opts.matrix_size),
          cn \in matrix_create(opts.matrix_size, opts.matrix_size),
          ct \in matrix_create(opts.matrix_size, opts.matrix_size) :
          /\ mats' = [mats EXCEPT !.A = a, !.B = b, !.C_naive = cn, !.C_tiled = ct]
          /\ IF ~a.alloc \/ ~b.alloc \/ ~cn.alloc \/ ~ct.alloc
             THEN pc' = "exit" /\ exit_code' = 1
             ELSE /\ pc' = IF use_vector THEN "alloc_vector" ELSE "run"
                  /\ exit_code' = exit_code
    /\ UNCHANGED <<argv, use_vector, opts, destroys>>
    /\ UNCHANGED <<kvars, cvars, vvars, tvars, rvars, bvars>>

\* lines 104-110: create C_vector; return 1 if it is NULL
AllocateVector ==
    /\ pc = "alloc_vector"
    /\ \E cv \in matrix_create(opts.matrix_size, opts.matrix_size) :
          /\ mats' = [mats EXCEPT !.C_vector = cv]
          /\ IF ~cv.alloc
             THEN pc' = "exit" /\ exit_code' = 1
             ELSE pc' = "run" /\ exit_code' = exit_code
    /\ UNCHANGED <<argv, use_vector, opts, destroys>>
    /\ UNCHANGED <<kvars, cvars, vvars, tvars, rvars, bvars>>

\* n * n * sizeof(double) exceeds size_t, so the buffers are shorter than n * n
SizeWraps(n) == n > ((SizeMod - 1) \div SIZEOF_DOUBLE) \div n

\* a kernel of the run leaves a buffer: a k-block of the tiled kernel ends below
\* 3, a row is shorter than a lane chunk, or the buffers are short
BenchmarksLeaveBuffer ==
    \/ opts.tile_size < 3
    \/ use_vector /\ opts.matrix_size < VECTOR_LENGTH
    \/ SizeWraps(opts.matrix_size)

\* lines 112-180: seed, fill A and B, run and time the kernels, verify.  None
\* of this changes what main owns or returns; an out-of-buffer access may end
\* the process.
RunBenchmarks ==
    /\ pc = "run"
    /\ pc' \in IF BenchmarksLeaveBuffer THEN {"cleanup", "crashed"} ELSE {"cleanup"}
    /\ UNCHANGED <<argv, use_vector, opts, mats, destroys, exit_code>>
    /\ UNCHANGED <<kvars, cvars, vvars, tvars, rvars, bvars>>

\* matrix_destroy(mat): a no-op on NULL
matrix_destroy(d, name) ==
    IF mats[name].alloc THEN [d EXCEPT ![name] = @ + 1] ELSE d

\* lines 182-193: destroy the matrices, return 0
Cleanup ==
    /\ pc = "cleanup"
    /\ LET d4 == matrix_destroy(matrix_destroy(matrix_destroy(matrix_destroy(
                     destroys, "A"), "B"), "C_naive"), "C_tiled")
       IN destroys' = IF use_vector THEN matrix_destroy(d4, "C_vector") ELSE d4
    /\ pc' = "exit"
    /\ exit_code' = 0
    /\ UNCHANGED <<argv, use_vector, opts, mats>>
    /\ UNCHANGED <<kvars, cvars, vvars, tvars, rvars, bvars>>

MainNext ==
    \/ ParseArguments
    \/ AllocateMatrices
    \/ AllocateVector
    \/ RunBenchmarks
    \/ Cleanup

\* C8: when main has returned after it started allocating, every matrix that
\* matrix_create returned has been passed to matrix_destroy exactly once, also
\* on the paths that return 1 because an allocation failed.
C8_AllCreatedAreDestroyed ==
    pc = "exit" => \A m \in MatNames : mats[m].alloc => destroys[m] = 1

\* on the path that returns 0 every created matrix was destroyed exactly once
ReleasedOnSuccess ==
    (pc = "exit" /\ exit_code = 0) =>
        \A m \in MatNames : mats[m].alloc => destroys[m] = 1

\* which arguments main reads as a matrix size and which as a tile size
RECURSIVE SizeArgs(_, _)
SizeArgs(args, i) ==
    IF i > Len(args) \/ IsHelp(args[i]) THEN {}
    ELSE IF IsVerify(args[i]) THEN SizeArgs(args, i + 1)
    ELSE IF IsTile(args[i]) THEN SizeArgs(args, i + 2)
    ELSE {i} \cup SizeArgs(args, i + 1)

RECURSIVE TileArgs(_, _)
TileArgs(args, i) ==
    IF i > Len(args) \/ IsHelp(args[i]) THEN {}
    ELSE IF IsTile(args[i])
         THEN (IF i + 1 <= Len(args) THEN {i + 1} ELSE {}) \cup TileArgs(args, i + 2)
    ELSE TileArgs(args, i + 1)

Max(S) == CHOOSE x \in S : \A y \in S : y <= x

PastValidation == pc \in {"alloc", "alloc_vector", "run", "cleanup", "crashed"}
                  \/ (pc = "exit" /\ \E m \in MatNames : mats[m].alloc)

\* C9: when main gets past the validation, matrix_size is an integer >= 2, the
\* value the user gave (or 512), and 1 <= tile_size <= matrix_size; no
\* matrix_size argument with integer value < 2 and no TILE_SIZE argument with
\* integer value < 1 lets main reach the allocation.
C9_ValidatedArguments ==
    PastValidation =>
        /\ \A i \in SizeArgs(argv, 1) : atoi(argv[i]) >= 2
        /\ \A i \in TileArgs(argv, 1) : atoi(argv[i]) >= 1
        /\ opts.matrix_size >= 2
        /\ opts.matrix_size =
              IF SizeArgs(argv, 1) = {} THEN 512
              ELSE atoi(argv[Max(SizeArgs(argv, 1))])
        /\ 1 <= opts.tile_size /\ opts.tile_size <= opts.matrix_size

\* for arguments that atoi reads as non-negative: past the validation no size
\* or tile argument was 0, the last size argument (or 512) is matrix_size and is
\* >= 2, and tile_size is the last tile argument (or 64) capped at matrix_size
ValidatedNonNegativeArguments ==
    ((\A i \in 1..Len(argv) : atoi(argv[i]) >= 0) /\ PastValidation) =>
        LET S == SizeArgs(argv, 1)
            T == TileArgs(argv, 1)
            n == IF S = {} THEN 512 ELSE atoi(argv[Max(S)])
            t == IF T = {} THEN 64 ELSE atoi(argv[Max(T)])
        IN  /\ \A i \in S \cup T : atoi(argv[i]) >= 1
            /\ opts.matrix_size = n /\ n >= 2
            /\ opts.tile_size = Min2(t, n) /\ opts.tile_size >= 1

(***************************************************************************)
(* The block loops of matrix_mult_tiled (ii, jj, kk) and of                *)
(* matrix_mult_tiled_optimized (ii, kk, jj), one step per loop test and    *)
(* one per block body, on compatible matrices n x m, m x p, n x p.         *)
(***************************************************************************)
MaxDim == 3

\* the counter of the middle and of the innermost block loop
Mid(kernel) == IF kernel = "tiled" THEN "jj" ELSE "kk"
Inn(kernel) == IF kernel = "tiled" THEN "kk" ELSE "jj"
\* the extent a block counter runs to: ii < n, jj < p, kk < m
Limit(c, v) == CASE v = "ii" -> c.n [] v = "jj" -> c.p [] OTHER -> c.m

ZeroMatrix(r, c) == Matrix(r, c, [x \in 1..(r * c) |-> 0])

\* the body of the innermost block loop: the tile boundaries and the loops over
\* the tile; only whether it leaves the buffers matters here
BlockBody(c, b) ==
    LET A == ZeroMatrix(c.n, c.m)
        B == ZeroMatrix(c.m, c.p)
        st == KState(ZeroMatrix(c.n, c.p), "none")
        i_end == TileEnd(b.ii, c.tile_size, c.n)
        j_end == TileEnd(b.jj, c.tile_size, c.p)
        k_end == TileEnd(b.kk, c.tile_size, c.m)
    IN  IF c.kernel = "tiled"
        THEN TiledI(A, B, st, b.ii, i_end, b.jj, j_end, b.kk, k_end)
        ELSE TOptI(A, B, st, b.ii, i_end, b.kk, k_end, b.jj, j_end)

\* tile sizes: 0, the small ones, and the largest size_t
BlockTileSizes == 0..MaxTile \cup {SizeMod - 1}

\* the calls: both tiled kernels on n x m by m x p matrices
BlockCalls ==
    [kernel : {"tiled", "tiled_optimized"},
     n : 1..MaxDim, m : 1..MaxDim, p : 1..MaxDim,
     tile_size : BlockTileSizes]

BlocksInit ==
    /\ blk_call \in BlockCalls
    /\ blk = [ii |-> 0, jj |-> 0, kk |-> 0]
    /\ blk_pc = "outer"

\* for (ii = 0; ii < n; ii += tile_size)
OuterLoop ==
    /\ blk_pc = "outer"
    /\ IF blk.ii < blk_call.n
       THEN /\ blk' = [blk EXCEPT ![Mid(blk_call.kernel)] = 0]
            /\ blk_pc' = "middle"
       ELSE /\ blk' = blk
            /\ blk_pc' = "done"
    /\ UNCHANGED <<blk_call, kvars, cvars, vvars, tvars, rvars, hvars>>

\* the second block loop: jj < p in matrix_mult_tiled, kk < m in the optimized one
MiddleLoop ==
    /\ blk_pc = "middle"
    /\ LET v == Mid(blk_call.kernel) IN
       IF blk[v] < Limit(blk_call, v)
       THEN /\ blk' = [blk EXCEPT ![Inn(blk_call.kernel)] = 0]
            /\ blk_pc' = "inner"
       ELSE /\ blk' = [blk EXCEPT !.ii = SizeAdd(@, blk_call.tile_size)]
            /\ blk_pc' = "outer"
    /\ UNCHANGED <<blk_call, kvars, cvars, vvars, tvars, rvars, hvars>>

\* the third block loop: kk < m in matrix_mult_tiled, jj < p in the optimized one
InnerLoop ==
    /\ blk_pc = "inner"
    /\ LET v == Inn(blk_call.kernel) IN
       IF blk[v] < Limit(blk_call, v)
       THEN /\ blk' = blk
            /\ blk_pc' = "block"
       ELSE /\ blk' = [blk EXCEPT ![Mid(blk_call.kernel)] = SizeAdd(@, blk_call.tile_size)]
            /\ blk_pc' = "middle"
    /\ UNCHANGED <<blk_call, kvars, cvars, vvars, tvars, rvars, hvars>>

\* one block: its body, then the increment of the innermost block counter; a
\* body that leaves the buffers may end the process
Block ==
    /\ blk_pc = "block"
    /\ blk' = [blk EXCEPT ![Inn(blk_call.kernel)] = SizeAdd(@, blk_call.tile_size)]
    /\ \/ blk_pc' = "inner"
       \/ /\ BlockBody(blk_call, blk).ub # "none"
          /\ blk_pc' = "crashed"
    /\ UNCHANGED <<blk_call, kvars, cvars, vvars, tvars, rvars, hvars>>

BlocksNext ==
    \/ OuterLoop
    \/ MiddleLoop
    \/ InnerLoop
    \/ Block

\* C15: every call of matrix_mult_tiled and of matrix_mult_tiled_optimized on
\* dimension-compatible matrices runs to completion, for every tile_size:
\* 0, the range [1, n], and values above n.
C15_BlockLoopsTerminate == <>(blk_pc = "done")

\* with tile_size 0 no block counter advances: the call never completes
TileZeroNeverCompletes ==
    blk_call.tile_size = 0 => blk_pc \notin {"done", "crashed"}

\* with tile_size >= 1 matrix_mult_tiled_optimized completes, and so does
\* matrix_mult_tiled when no k-block ends below 3
PositiveTileTerminates ==
    (/\ blk_call.tile_size >= 1
     /\ blk_call.kernel = "tiled" => (blk_call.tile_size >= 3 /\ blk_call.m >= 3))
    => <>(blk_pc = "done")

(***************************************************************************)
(* The specifications.  Each one runs one part of the program; the state   *)
(* of the other parts stays at rest.                                       *)
(***************************************************************************)
KernelIdle ==
    /\ pre = [A |-> NullMatrix, B |-> NullMatrix, C |-> NullMatrix]
    /\ mem = pre
    /\ call = [kernel |-> "none", tile |-> 0]
    /\ status = "idle"

CreateIdle ==
    /\ create_req = <<0, 0>> /\ create_ret = NullHandle /\ create_pc = "idle"

VerifyIdle ==
    /\ verify_in = [A |-> NullMatrix, B |-> NullMatrix, tolerance |-> Dbl(0)]
    /\ verify_ret = -1 /\ verify_pc = "idle"

TileIdle ==
    /\ tile_in = <<0, 1>> /\ tile_ret = 0 /\ tile_pc = "idle"

RandIdle ==
    /\ rand_cfg = [seed |-> U32(0), shape |-> <<0, 0>>, limits |-> <<0, 0>>]
    /\ rnd = << >>

MainIdle ==
    /\ argv = << >> /\ use_vector = FALSE /\ pc = "idle"
    /\ opts = [matrix_size |-> 0, tile_size |-> 0, verify_results |-> 0]
    /\ mats = [m \in MatNames |-> NullHandle]
    /\ destroys = [m \in MatNames |-> 0]
    /\ exit_code = -1

BlocksIdle ==
    /\ blk_call = [kernel |-> "none", n |-> 0, m |-> 0, p |-> 0, tile_size |-> 0]
    /\ blk = [ii |-> 0, jj |-> 0, kk |-> 0]
    /\ blk_pc = "idle"

KernelStart ==
    KernelInit /\ CreateIdle /\ VerifyIdle /\ TileIdle
    /\ RandIdle /\ MainIdle /\ BlocksIdle
CreateStart ==
    CreateInit /\ KernelIdle /\ VerifyIdle /\ TileIdle
    /\ RandIdle /\ MainIdle /\ BlocksIdle
VerifyStart ==
    VerifyInit /\ KernelIdle /\ CreateIdle /\ TileIdle
    /\ RandIdle /\ MainIdle /\ BlocksIdle
TileStart ==
    TileInit /\ KernelIdle /\ CreateIdle /\ VerifyIdle
    /\ RandIdle /\ MainIdle /\ BlocksIdle
RandStart ==
    RandInit /\ KernelIdle /\ CreateIdle /\ VerifyIdle
    /\ TileIdle /\ MainIdle /\ BlocksIdle
MainStart ==
    MainInit /\ KernelIdle /\ CreateIdle /\ VerifyIdle
    /\ TileIdle /\ RandIdle /\ BlocksIdle
BlocksStart ==
    BlocksInit /\ KernelIdle /\ CreateIdle /\ VerifyIdle
    /\ TileIdle /\ RandIdle /\ MainIdle

SpecKernel == KernelStart /\ [][KernelNext]_vars
SpecCreate == CreateStart /\ [][CreateNext]_vars
SpecVerify == VerifyStart /\ [][VerifyNext]_vars
SpecTile == TileStart /\ [][TileNext]_vars
SpecRand == RandStart /\ [][RandNext]_vars
SpecMain == MainStart /\ [][MainNext]_vars
\* a call that has begun goes on executing
SpecBlocks == BlocksStart /\ [][BlocksNext]_vars /\ WF_vars(BlocksNext)

=============================================================================
